---- MODULE Spec2Model ----
(***************************************************************************)
(* A model of src/flightaware/client/adeptclient.py: the UDP packet        *)
(* batcher (UdpServerConnection), the line reader (AdeptReader), the line  *)
(* writer (AdeptWriter) and the connection that binds them                 *)
(* (AdeptConnection).                                                      *)
(*                                                                         *)
(* Python integers are unbounded; TLC's are 32 bits wide.  A timestamp or  *)
(* a timestamp difference is therefore held as a pair <<hi, lo>> standing  *)
(* for hi * 2^24 + lo with 0 <= lo < 2^24 (hi carries the sign).           *)
(***************************************************************************)
EXTENDS Integers, Sequences, FiniteSets, TLC

VARIABLES
    udp,        \* the UdpServerConnection object (fields as in the source)
    wire,       \* the datagrams handed to sock.send, in send order
    stats,      \* stats.global_stats
    conn,       \* the AdeptConnection object
    reader,     \* the AdeptReader object, None before start()
    writer,     \* the AdeptWriter object, None before start()
    accepted,   \* the bytes the text stream accepted (AdeptWriter.send)
    calls,      \* the coordinator callbacks made so far, in order
    clock,      \* util.monotonic_time()
    appended,   \* history: the messages given to the batcher, in call order
    dropped,    \* history: indices of appended messages discarded by close()
    queued,     \* history: the concatenation of the lines given to the writer
    peak,       \* history: the highest value `used` has taken
    logged,     \* the number of exceptions util.log_exc has logged
    steps,      \* how many sends, reads and writes the behaviour has made
    op,         \* history: the last operation and its arguments
    stdin,      \* the byte stream the server writes to the reader's stdin
    exc         \* the exception the last operation raised, "none" if none

vars == <<udp, wire, stats, conn, reader, writer, accepted, calls, clock,
          appended, dropped, queued, peak, logged, steps, op, stdin, exc>>

\* None: the empty tuple, comparable with a timestamp pair and with an object.
None == <<>>

(***************************************************************************)
(* Unbounded integers as <<hi, lo>> pairs.                                 *)
(***************************************************************************)
Limb == 2^24

Norm(h, l) == <<h + (l \div Limb), l % Limb>>
Big(n) == Norm(0, n)
Add(a, b) == Norm(a[1] + b[1], a[2] + b[2])
Sub(a, b) == Norm(a[1] - b[1], a[2] - b[2])
Neg(a) == Norm(-a[1], -a[2])
Abs(a) == IF a[1] < 0 THEN Neg(a) ELSE a
Gt(a, b) == a[1] > b[1] \/ (a[1] = b[1] /\ a[2] > b[2])
Le(a, b) == ~Gt(a, b)

\* int(x / 2): true division, then truncation toward zero.  The quotient is
\* exact in a double for |x| < 2^53, which the sum of two 48-bit timestamps is.
HalfNat(a) == <<a[1] \div 2, ((a[1] % 2) * Limb + a[2]) \div 2>>
IntHalf(a) == IF a[1] < 0 THEN Neg(HalfNat(Neg(a))) ELSE HalfNat(a)

\* The literals of the source that do not fit 32 bits, and those that go
\* with them.
Hex7FFFFFF0 == <<127, Limb - 16>>
HexFFFFFFF0 == <<255, Limb - 16>>
Int32Min == <<-128, 0>>
Int32Max == <<127, Limb - 1>>

(***************************************************************************)
(* struct: the submessage types, the layouts' sizes and the field codecs.  *)
(***************************************************************************)
TYPE_SYNC == 1
TYPE_MLAT_SHORT == 2
TYPE_MLAT_LONG == 3
TYPE_REBASE == 5
TYPE_ABS_SYNC == 6

STRUCT_HEADER_size == 14
STRUCT_SYNC_size == 40
STRUCT_MLAT_SHORT_size == 15
STRUCT_MLAT_LONG_size == 22
STRUCT_REBASE_size == 9
STRUCT_ABS_SYNC_size == 48

BufSize == 1500
FlushThreshold == 1400
SeqMask == 65535

\* 'i': a signed 32-bit field, stored as its two's complement word;
\* struct.error when the value is out of range.
FitsI(d) == Le(Int32Min, d) /\ Le(d, Int32Max)
PackI(d) == <<d[1] % 256, d[2]>>
UnpackI(w) == IF w[1] >= 128 THEN <<w[1] - 256, w[2]>> ELSE w

\* 'Q': an unsigned 64-bit field; struct.error when the value is out of range.
\* (The upper end, 2^64, is beyond any hi a 32-bit integer can hold.)
FitsQ(t) == t[1] >= 0

\* 'Ns': N bytes, the value cut or zero-padded to that length.
RECURSIVE Zeros(_)
Zeros(n) == IF n <= 0 THEN <<>> ELSE <<0>> \o Zeros(n - 1)
PackS(n, b) == IF Len(b) >= n THEN SubSeq(b, 1, n) ELSE b \o Zeros(n - Len(b))

\* '3B': the address as the three bytes the source computes.
AddrBytes(a) == <<a \div 65536, (a \div 256) % 256, a % 256>>
FitsB(b) == \A i \in 1..Len(b) : b[i] >= 0 /\ b[i] <= 255
AddrOf(b) == b[1] * 65536 + b[2] * 256 + b[3]

\* An item of the buffer is a record of the fields one STRUCT packs; its
\* field struct names the layout.
SizeOf(item) ==
    CASE item.struct = "HEADER" -> STRUCT_HEADER_size
      [] item.struct = "SYNC" -> STRUCT_SYNC_size
      [] item.struct = "MLAT_SHORT" -> STRUCT_MLAT_SHORT_size
      [] item.struct = "MLAT_LONG" -> STRUCT_MLAT_LONG_size
      [] item.struct = "REBASE" -> STRUCT_REBASE_size
      [] item.struct = "ABS_SYNC" -> STRUCT_ABS_SYNC_size

\* The checks struct makes of an item's fields before it writes any of them.
BadField(item) ==
    CASE item.struct \in {"HEADER", "REBASE"} ->
            IF FitsQ(item.base_timestamp) THEN "none" ELSE "struct.error:Q"
      [] item.struct \in {"MLAT_SHORT", "MLAT_LONG"} ->
            IF ~FitsB(item.address) THEN "struct.error:B"
            ELSE IF ~FitsI(item.delta) THEN "struct.error:i" ELSE "none"
      [] item.struct = "SYNC" ->
            IF ~FitsB(item.address) THEN "struct.error:B"
            ELSE IF ~FitsI(item.edelta) \/ ~FitsI(item.odelta)
                 THEN "struct.error:i" ELSE "none"
      [] item.struct = "ABS_SYNC" ->
            IF ~FitsB(item.address) THEN "struct.error:B"
            ELSE IF ~FitsQ(item.etimestamp) \/ ~FitsQ(item.otimestamp)
                 THEN "struct.error:Q" ELSE "none"

\* The bytes struct writes for an item: every field through its codec.
Packed(item) ==
    CASE item.struct \in {"HEADER", "REBASE", "ABS_SYNC"} -> item
      [] item.struct \in {"MLAT_SHORT", "MLAT_LONG"} ->
            [item EXCEPT !.delta = PackI(@)]
      [] item.struct = "SYNC" ->
            [item EXCEPT !.edelta = PackI(@), !.odelta = PackI(@)]

Max(a, b) == IF a >= b THEN a ELSE b

(***************************************************************************)
(* UdpServerConnection.  The operations act on a record w of the batcher   *)
(* and what its statements touch: w.udp (the object), w.wire, w.stats,     *)
(* w.peak and w.exc.  Once w.exc is set the remaining statements of the    *)
(* operation are skipped, as after a raise.  udp.buf is the content of     *)
(* buf[0:used], as the sequence of structures packed into it.              *)
(***************************************************************************)
UdpObject(key, seq) ==
    [key |-> key, base_timestamp |-> None, buf |-> <<>>, used |-> 0,
     seq |-> seq, count |-> seq, sock |-> "none"]

\* STRUCT.pack_into(self.buf, self.used, ...) followed by self.used += STRUCT.size
PackInto(w, item) ==
    IF w.exc # "none" THEN w
    ELSE IF BadField(item) # "none" THEN [w EXCEPT !.exc = BadField(item)]
    ELSE IF w.udp.used + SizeOf(item) > BufSize
         THEN [w EXCEPT !.exc = "struct.error:buffer"]
    ELSE [w EXCEPT !.udp.buf = Append(@, Packed(item)),
                   !.udp.used = @ + SizeOf(item),
                   !.peak = Max(@, w.udp.used + SizeOf(item))]

\* Mutant: a header that carries the datagram counter, not the sequence.
prepare_header_count(w, timestamp) ==
    PackInto([w EXCEPT !.udp.base_timestamp = timestamp],
             [struct |-> "HEADER", key |-> w.udp.key, seq |-> w.udp.count,
              base_timestamp |-> timestamp])

prepare_header(w, timestamp) ==
    PackInto([w EXCEPT !.udp.base_timestamp = timestamp],
             [struct |-> "HEADER", key |-> w.udp.key, seq |-> w.udp.seq,
              base_timestamp |-> timestamp])

\* Mutant: rebase() that writes the submessage and keeps the old base.
rebase_stale(w, timestamp) ==
    IF w.exc # "none" THEN w
    ELSE PackInto(w, [struct |-> "REBASE", type |-> TYPE_REBASE,
                      base_timestamp |-> timestamp])

rebase(w, timestamp) ==
    IF w.exc # "none" THEN w
    ELSE PackInto([w EXCEPT !.udp.base_timestamp = timestamp],
                  [struct |-> "REBASE", type |-> TYPE_REBASE, base_timestamp |-> timestamp])

\* Mutant: flush() that counts the sequence without the 16-bit mask.
flush_unmasked(w, sent) ==
    IF w.exc # "none" \/ w.udp.used = 0 THEN w
    ELSE IF w.udp.sock = "none" THEN [w EXCEPT !.exc = "AttributeError"]
    ELSE [w EXCEPT
            !.wire = Append(@, [data |-> w.udp.buf,
                                sent |-> sent /\ w.udp.sock = "open"]),
            !.stats.server_udp_bytes = @ + w.udp.used,
            !.udp.used = 0,
            !.udp.buf = <<>>,
            !.udp.base_timestamp = None,
            !.udp.seq = w.udp.seq + 1,
            !.udp.count = @ + 1]

\* sent: whether sock.send succeeded (a socket.error is swallowed).
flush(w, sent) ==
    IF w.exc # "none" \/ w.udp.used = 0 THEN w
    ELSE IF w.udp.sock = "none" THEN [w EXCEPT !.exc = "AttributeError"]
    ELSE [w EXCEPT
            !.wire = Append(@, [data |-> w.udp.buf,
                                sent |-> sent /\ w.udp.sock = "open"]),
            !.stats.server_udp_bytes = @ + w.udp.used,
            !.udp.used = 0,
            !.udp.buf = <<>>,
            !.udp.base_timestamp = None,
            !.udp.seq = (w.udp.seq + 1) % (SeqMask + 1),
            !.udp.count = @ + 1]

\* Mutant: an append that never flushes.
FlushIfFull_never(w, sent) == w

\* if self.used > 1400: self.flush()
FlushIfFull(w, sent) ==
    IF w.exc = "none" /\ w.udp.used > FlushThreshold THEN flush(w, sent) ELSE w

MlatItem(message, delta) ==
    [struct |-> IF Len(message.payload) = 7 THEN "MLAT_SHORT" ELSE "MLAT_LONG",
     type |-> IF Len(message.payload) = 7 THEN TYPE_MLAT_SHORT ELSE TYPE_MLAT_LONG,
     address |-> AddrBytes(message.address),
     delta |-> delta,
     payload |-> PackS(IF Len(message.payload) = 7 THEN 7 ELSE 14, message.payload)]

\* Mutant: the rebase test of send_mlat against the whole signed range.
MlatNeedsRebase_int32(delta) == Gt(Abs(delta), Int32Max)

\* abs(delta) > 0x7FFFFFF0
MlatNeedsRebase(delta) == Gt(Abs(delta), Hex7FFFFFF0)

send_mlat(w, message, sent) ==
    LET w1 == IF w.udp.used = 0 THEN prepare_header(w, message.timestamp) ELSE w
        delta == Sub(message.timestamp, w1.udp.base_timestamp)
        far == MlatNeedsRebase(delta)
        w2 == IF far THEN rebase(w1, message.timestamp) ELSE w1
        w3 == PackInto(w2, MlatItem(message, IF far THEN Big(0) ELSE delta))
    IN  IF w1.exc # "none" THEN w1 ELSE FlushIfFull(w3, sent)

\* Mutant: the absolute form taken from the threshold on, not above it.
SyncUsesAbs_from(em, om) ==
    ~Gt(HexFFFFFFF0, Abs(Sub(em.timestamp, om.timestamp)))

\* abs(em.timestamp - om.timestamp) > 0xFFFFFFF0
SyncUsesAbs(em, om) == Gt(Abs(Sub(em.timestamp, om.timestamp)), HexFFFFFFF0)

\* Mutant: the rebase test of send_sync on the even delta alone.
SyncNeedsRebase_even(edelta, odelta) == Gt(Abs(edelta), Hex7FFFFFF0)

SyncNeedsRebase(edelta, odelta) ==
    Gt(Abs(edelta), Hex7FFFFFF0) \/ Gt(Abs(odelta), Hex7FFFFFF0)

SyncMean(em, om) == IntHalf(Add(em.timestamp, om.timestamp))

send_sync(w, em, om, sent) ==
    LET w1 == IF w.udp.used = 0 THEN prepare_header(w, SyncMean(em, om)) ELSE w
        edelta == Sub(em.timestamp, w1.udp.base_timestamp)
        odelta == Sub(om.timestamp, w1.udp.base_timestamp)
        far == SyncNeedsRebase(edelta, odelta)
        w2 == IF far THEN rebase(w1, SyncMean(em, om)) ELSE w1
        w3 == IF SyncUsesAbs(em, om)
              THEN PackInto(w1, [struct |-> "ABS_SYNC", type |-> TYPE_ABS_SYNC,
                                 address |-> AddrBytes(em.address),
                                 etimestamp |-> em.timestamp,
                                 otimestamp |-> om.timestamp,
                                 epayload |-> PackS(14, em.payload),
                                 opayload |-> PackS(14, om.payload)])
              ELSE PackInto(w2, [struct |-> "SYNC", type |-> TYPE_SYNC,
                                 address |-> AddrBytes(em.address),
                                 edelta |-> Sub(em.timestamp, w2.udp.base_timestamp),
                                 odelta |-> Sub(om.timestamp, w2.udp.base_timestamp),
                                 epayload |-> PackS(14, em.payload),
                                 opayload |-> PackS(14, om.payload)])
    IN  IF w1.exc # "none" THEN w1 ELSE FlushIfFull(w3, sent)

udp_close(w) ==
    [w EXCEPT !.udp.used = 0, !.udp.buf = <<>>,
              !.udp.sock = IF @ = "none" THEN "none" ELSE "closed"]

udp_start(w) == [w EXCEPT !.udp.sock = "open"]

(***************************************************************************)
(* Text: byte strings are TLA+ strings, one character a byte.              *)
(***************************************************************************)
RECURSIVE Join(_, _)
Join(parts, sep) ==
    IF Len(parts) = 0 THEN ""
    ELSE IF Len(parts) = 1 THEN parts[1]
    ELSE parts[1] \o sep \o Join(Tail(parts), sep)

\* The n-th character of a string.
Char(str, n) == SubSeq(str, n, n)

\* str.split(sep) for a one-character sep: the pieces between separators,
\* always at least one piece.
Split(str, sep) ==
    LET at == {i \in 1..Len(str) : Char(str, i) = sep}
        \* the k-th separator; 0 before the first, Len(str) + 1 after the last
        nth(k) == IF k = 0 THEN 0
                  ELSE IF k > Cardinality(at) THEN Len(str) + 1
                  ELSE CHOOSE i \in at : Cardinality({j \in at : j < i}) = k - 1
    IN  [k \in 1..(Cardinality(at) + 1) |-> SubSeq(str, nth(k - 1) + 1, nth(k) - 1)]

RECURSIVE HexDigits(_, _, _)
HexDigits(n, width, digits) ==
    IF n < 16 /\ width <= 1 THEN Char(digits, n + 1)
    ELSE HexDigits(n \div 16, width - 1, digits) \o Char(digits, (n % 16) + 1)

\* '{0:06X}'.format(n) and '{0:06x}'.format(n), n >= 0
Hex06X(n) == HexDigits(n, 6, "0123456789ABCDEF")
Hex06x(n) == HexDigits(n, 6, "0123456789abcdef")
\* '{t:012x}'.format(t=t) of a timestamp pair, t >= 0
Hex012x(t) == Hex06x(t[1]) \o HexDigits(t[2], 6, "0123456789abcdef")

\* str(n), n >= 0
RECURSIVE DecDigits(_)
DecDigits(n) ==
    IF n < 10 THEN Char("0123456789", n + 1)
    ELSE DecDigits(n \div 10) \o Char("0123456789", (n % 10) + 1)

\* str(message): the payload in hexadecimal, two digits a byte.
RECURSIVE MessageStr(_)
MessageStr(payload) ==
    IF Len(payload) = 0 THEN ""
    ELSE HexDigits(payload[1], 2, "0123456789abcdef") \o MessageStr(Tail(payload))

\* message.df: the top five bits of the first payload byte.
MessageDf(message) == message.payload[1] \div 8

CLIENT_VERSION == "0.2.13"

(***************************************************************************)
(* AdeptWriter                                                             *)
(***************************************************************************)
WriterObject == [closed |-> FALSE, writebuf |-> ""]

WriteBufLimit == 65536

\* self.writebuf += line.encode('ascii')
WriterAppend(w, line) ==
    IF w.exc # "none" THEN w
    ELSE [w EXCEPT !.writer.writebuf = @ \o line, !.queued = @ \o line]

RECURSIVE ChainItems(_)
ChainItems(kwargs) ==
    IF Len(kwargs) = 0 THEN <<>>
    ELSE <<kwargs[1][1], kwargs[1][2]>> \o ChainItems(Tail(kwargs))

\* kwargs: the keyword arguments as <<key, value>> pairs in call order
send_message(w, kwargs) ==
    WriterAppend(w, Join(ChainItems(kwargs), "\t") \o "\n")

writer_send_mlat(w, message) ==
    WriterAppend(w,
        "type\tmlat_mlat\thexid\t" \o Hex06X(message.address)
        \o (IF MessageDf(message) <= 15 THEN "\tm_short\t" ELSE "\tm_long\t")
        \o Hex012x(message.timestamp) \o " " \o MessageStr(message.payload)
        \o "\n")

writer_send_sync(w, em, om) ==
    WriterAppend(w,
        "type\tmlat_sync\thexid\t" \o Hex06X(em.address) \o "\tm_sync\t"
        \o Hex012x(em.timestamp) \o " " \o MessageStr(em.payload) \o " "
        \o Hex012x(om.timestamp) \o " " \o MessageStr(om.payload) \o "\n")

RECURSIVE HexList(_)
HexList(aclist) ==
    IF Len(aclist) = 0 THEN <<>>
    ELSE <<Hex06X(aclist[1])>> \o HexList(Tail(aclist))

send_seen(w, aclist) ==
    send_message(w, <<<<"type", "mlat_seen">>, <<"hexids", Join(HexList(aclist), " ")>>>>)

send_lost(w, aclist) ==
    send_message(w, <<<<"type", "mlat_lost">>, <<"hexids", Join(HexList(aclist), " ")>>>>)

\* report: <<icao, rate>> pairs; a rate is given in hundredths, which is
\* what '{1:.2f}' keeps of it.
RECURSIVE RateList(_)
RateList(report) ==
    IF Len(report) = 0 THEN <<>>
    ELSE <<Hex06X(report[1][1]) \o " " \o DecDigits(report[1][2] \div 100) \o "."
           \o Char("0123456789", ((report[1][2] \div 10) % 10) + 1)
           \o Char("0123456789", (report[1][2] % 10) + 1)>>
         \o RateList(Tail(report))

send_rate_report(w, report) ==
    send_message(w, <<<<"type", "mlat_rates">>, <<"rates", Join(RateList(report), " ")>>>>)

send_ready(w) ==
    send_message(w, <<<<"type", "mlat_event">>, <<"event", "ready">>,
                      <<"mlat_client_version", CLIENT_VERSION>>>>)

send_input_connected(w) ==
    send_message(w, <<<<"type", "mlat_event">>, <<"event", "connected">>>>)

send_input_disconnected(w) ==
    send_message(w, <<<<"type", "mlat_event">>, <<"event", "disconnected">>>>)

send_clock_reset(w) ==
    send_message(w, <<<<"type", "mlat_event">>, <<"event", "clock_reset">>>>)

send_udp_report(w, count) ==
    send_message(w, <<<<"type", "mlat_udp_report">>, <<"messages_sent", DecDigits(count)>>>>)

\* Mutant: handle_write() that empties the buffer whatever send() accepted.
handle_write_all(w, sent) ==
    IF w.writer.writebuf = "" THEN w
    ELSE [w EXCEPT !.accepted = @ \o SubSeq(w.writer.writebuf, 1, sent),
                   !.writer.writebuf = "",
                   !.stats.server_tx_bytes = @ + sent]

\* sent: the number of bytes self.send() accepted, 0 <= sent <= len(writebuf)
handle_write(w, sent) ==
    IF w.writer.writebuf = "" THEN w
    ELSE LET rest == SubSeq(w.writer.writebuf, sent + 1, Len(w.writer.writebuf))
             w1 == [w EXCEPT !.accepted = @ \o SubSeq(w.writer.writebuf, 1, sent),
                             !.writer.writebuf = rest,
                             !.stats.server_tx_bytes = @ + sent]
         IN  IF Len(rest) > WriteBufLimit THEN [w1 EXCEPT !.exc = "IOError"] ELSE w1

(***************************************************************************)
(* AdeptReader                                                             *)
(***************************************************************************)
ReaderObject == [closed |-> FALSE, partial_line |-> ""]

\* dict(zip(fields[0::2], fields[1::2])): a later pair replaces an earlier
\* one with the same key; a last field without a partner is left out.
RECURSIVE ZipDict(_, _)
ZipDict(fields, d) ==
    IF Len(fields) < 2 THEN d
    ELSE ZipDict(SubSeq(fields, 3, Len(fields)),
                 [k \in (DOMAIN d) \cup {fields[1]} |->
                     IF k = fields[1] THEN fields[2] ELSE d[k]])
EmptyDict == [k \in {} |-> ""]

IndexIn(str, c) == CHOOSE i \in 1..Len(str) : Char(str, i) = c
IsIn(str, c) == \E i \in 1..Len(str) : Char(str, i) = c
AllIn(str, alphabet) == \A i \in 1..Len(str) : IsIn(alphabet, Char(str, i))

\* int(x, 16) and int(x) for the texts the model feeds: digits only (the
\* signs, blanks and underscores Python also accepts do not occur).
IsHex(x) == Len(x) > 0 /\ AllIn(x, "0123456789abcdefABCDEF")
RECURSIVE HexValue(_, _)
HexValue(x, acc) ==
    IF Len(x) = 0 THEN acc
    ELSE HexValue(Tail(x),
                  acc * 16 + (IF IsIn("0123456789", Head(x))
                              THEN IndexIn("0123456789", Head(x)) - 1
                              ELSE IF IsIn("abcdef", Head(x))
                              THEN IndexIn("abcdef", Head(x)) + 9
                              ELSE IndexIn("ABCDEF", Head(x)) + 9))
IsDec(x) == Len(x) > 0 /\ AllIn(x, "0123456789")
RECURSIVE DecValue(_, _)
DecValue(x, acc) ==
    IF Len(x) = 0 THEN acc
    ELSE DecValue(Tail(x), acc * 10 + IndexIn("0123456789", Head(x)) - 1)

\* float(x) for the texts the model feeds: an optional sign, digits and an
\* optional fraction.  The value is kept as sign, whole part and fraction.
IsFloat(x) ==
    LET body == IF Len(x) > 0 /\ Head(x) \in {"-", "+"} THEN Tail(x) ELSE x
        parts == Split(body, ".")
    IN  /\ Len(parts) \in {1, 2}
        /\ IsDec(parts[1])
        /\ Len(parts) = 2 => IsDec(parts[2])
FloatValue(x) ==
    LET neg == Head(x) = "-"
        body == IF Head(x) \in {"-", "+"} THEN Tail(x) ELSE x
        parts == Split(body, ".")
    IN  [neg |-> neg, whole |-> DecValue(parts[1], 0),
         frac |-> IF Len(parts) = 2 THEN parts[2] ELSE "0"]

\* {int(x, 16) for x in message['hexids'].split(' ')}; ValueError on a bad one
HexIdsOk(hexids) ==
    hexids = "" \/ \A i \in 1..Len(Split(hexids, " ")) : IsHex(Split(hexids, " ")[i])
HexIdSet(hexids) ==
    IF hexids = "" THEN {}
    ELSE {HexValue(Split(hexids, " ")[i], 0) : i \in 1..Len(Split(hexids, " "))}

Raise(w, e) == [w EXCEPT !.exc = e]
\* A callback of the coordinator: its name, its arguments, and what the
\* connection shows at the time of the call (at).
Call(w, name, args) ==
    [w EXCEPT !.calls = Append(@, [name |-> name, args |-> args,
                                   at |-> [state |-> w.conn.state,
                                           queued |-> w.queued]])]

process_wanted_message(w, message) ==
    IF "hexids" \notin DOMAIN message THEN Raise(w, "KeyError")
    ELSE IF ~HexIdsOk(message["hexids"]) THEN Raise(w, "ValueError")
    ELSE Call(w, "server_start_sending", <<HexIdSet(message["hexids"])>>)

process_unwanted_message(w, message) ==
    IF "hexids" \notin DOMAIN message THEN Raise(w, "KeyError")
    ELSE IF ~HexIdsOk(message["hexids"]) THEN Raise(w, "ValueError")
    ELSE Call(w, "server_stop_sending", <<HexIdSet(message["hexids"])>>)

ResultKeys == <<"hexid", "lat", "lon", "alt", "nsvel", "ewvel", "fpm">>

process_result_message(w, message) ==
    IF \E i \in 1..Len(ResultKeys) : ResultKeys[i] \notin DOMAIN message
    THEN Raise(w, "KeyError")
    ELSE IF ~IsHex(message["hexid"])
            \/ \E i \in 2..Len(ResultKeys) : ~IsFloat(message[ResultKeys[i]])
    THEN Raise(w, "ValueError")
    ELSE Call(w, "server_mlat_result",
              [timestamp |-> None, addr |-> HexValue(message["hexid"], 0),
               lat |-> FloatValue(message["lat"]), lon |-> FloatValue(message["lon"]),
               alt |-> FloatValue(message["alt"]), nsvel |-> FloatValue(message["nsvel"]),
               ewvel |-> FloatValue(message["ewvel"]), vrate |-> FloatValue(message["fpm"]),
               callsign |-> None, squawk |-> None, error_est |-> None,
               nstations |-> None])

\* Mutant: every status shown as "<status> <count>".
StatusText_plain(s, r) == s \o " " \o DecDigits(r)

StatusText(s, r) ==
    IF s = "ok" THEN "synchronized with " \o DecDigits(r) \o " nearby receivers"
    ELSE IF s = "unstable" THEN "clock unstable"
    ELSE IF s = "no_sync" THEN "not synchronized with any nearby receivers"
    ELSE s \o " " \o DecDigits(r)

process_status_message(w, message) ==
    LET s == IF "status" \in DOMAIN message THEN message["status"] ELSE "unknown"
        given == "receiver_sync_count" \in DOMAIN message
    IN  IF given /\ ~IsDec(message["receiver_sync_count"]) THEN Raise(w, "ValueError")
        ELSE [w EXCEPT !.conn.state =
                StatusText(s, IF given THEN DecValue(message["receiver_sync_count"], 0)
                                       ELSE 0)]

process_line(w, line) ==
    LET message == ZipDict(Split(line, "\t"), EmptyDict)
    IN  IF "type" \notin DOMAIN message THEN Raise(w, "KeyError")
        ELSE CASE message["type"] = "mlat_wanted" -> process_wanted_message(w, message)
               [] message["type"] = "mlat_unwanted" -> process_unwanted_message(w, message)
               [] message["type"] = "mlat_result" -> process_result_message(w, message)
               [] message["type"] = "mlat_status" -> process_status_message(w, message)
               [] OTHER -> w

\* Mutant: the loop over the lines left at the first line that fails.
RECURSIVE ProcessLines_abort(_, _)
ProcessLines_abort(w, lines) ==
    IF Len(lines) <= 1 \/ w.exc # "none" THEN w
    ELSE LET w1 == process_line(w, lines[1])
         IN  IF w1.exc = "IOError" THEN w1
             ELSE IF w1.exc # "none"
             THEN [w1 EXCEPT !.exc = "none", !.logged = @ + 1]
             ELSE ProcessLines_abort(w1, Tail(lines))

\* for line in lines[:-1]: an IOError is raised on, anything else is logged
\* (util.log_exc) and the loop goes on.
RECURSIVE ProcessLines(_, _)
ProcessLines(w, lines) ==
    IF Len(lines) <= 1 \/ w.exc # "none" THEN w
    ELSE LET w1 == process_line(w, lines[1])
         IN  ProcessLines(IF w1.exc = "IOError" THEN w1
                          ELSE [w1 EXCEPT !.exc = "none",
                                          !.logged = @ + (IF w1.exc = "none" THEN 0 ELSE 1)],
                          Tail(lines))

(***************************************************************************)
(* AdeptConnection, and the close() of the reader and of the writer, which *)
(* call back into disconnect().                                            *)
(***************************************************************************)
UDP_REPORT_INTERVAL == 60

\* route: where start() bound send_mlat and send_sync ("unbound" before it)
ConnectionObject(udp_transport) ==
    [closed |-> FALSE, state |-> "init", coordinator |-> None,
     udp_transport |-> udp_transport, route |-> "unbound",
     next_udp_report |-> None]

\* The coordinator start() is given; the time of the next report is held as
\* <<t>>, so that both compare with None.
Coordinator == <<"coordinator">>

Notify(w) ==
    IF w.conn.coordinator # None THEN Call(w, "server_disconnected", <<>>) ELSE w

RECURSIVE disconnect(_)
RECURSIVE reader_close(_)
RECURSIVE writer_close(_)

reader_close(w) ==
    IF ~w.reader.closed
    THEN disconnect([w EXCEPT !.reader.closed = TRUE])
    ELSE w

\* Mutant: a writer whose close() does not tell the connection.
writer_close_quiet(w) ==
    IF ~w.writer.closed THEN [w EXCEPT !.writer.closed = TRUE] ELSE w

writer_close(w) ==
    IF ~w.writer.closed
    THEN disconnect([w EXCEPT !.writer.closed = TRUE])
    ELSE w

\* Mutant: disconnect() without its closed flag.
disconnect_unguarded(w) ==
    LET w1 == [w EXCEPT !.conn.closed = TRUE, !.conn.state = "closed"]
        w2 == IF w1.reader # None THEN reader_close(w1) ELSE w1
        w3 == IF w2.writer # None THEN writer_close(w2) ELSE w2
        w4 == IF w3.conn.udp_transport THEN udp_close(w3) ELSE w3
    IN  Notify(w4)

disconnect(w) ==
    IF ~w.conn.closed
    THEN LET w1 == [w EXCEPT !.conn.closed = TRUE, !.conn.state = "closed"]
             w2 == IF w1.reader # None THEN reader_close(w1) ELSE w1
             w3 == IF w2.writer # None THEN writer_close(w2) ELSE w2
             w4 == IF w3.conn.udp_transport THEN udp_close(w3) ELSE w3
         IN  Notify(w4)
    ELSE w

\* Mutant: a start() that tells the coordinator before anything else.
start_early_notify(w, coordinator) ==
    LET w0 == Call([w EXCEPT !.conn.coordinator = coordinator], "server_connected", <<>>)
        w1 == [w0 EXCEPT !.reader = ReaderObject, !.writer = WriterObject]
        w2 == IF w1.conn.udp_transport
              THEN [udp_start(w1) EXCEPT !.conn.route = "udp"]
              ELSE [w1 EXCEPT !.conn.route = "writer"]
        w3 == send_ready([w2 EXCEPT !.conn.state = "connected"])
    IN  [w3 EXCEPT !.conn.next_udp_report = <<w.clock + UDP_REPORT_INTERVAL>>]

start(w, coordinator) ==
    LET w1 == [w EXCEPT !.conn.coordinator = coordinator,
                        !.reader = ReaderObject,
                        !.writer = WriterObject]
        w2 == IF w1.conn.udp_transport
              THEN [udp_start(w1) EXCEPT !.conn.route = "udp"]
              ELSE [w1 EXCEPT !.conn.route = "writer"]
        w3 == send_ready([w2 EXCEPT !.conn.state = "connected"])
        w4 == [w3 EXCEPT !.conn.next_udp_report = <<w.clock + UDP_REPORT_INTERVAL>>]
    IN  Call(w4, "server_connected", <<>>)

\* Mutant: a report that is due as soon as its time has come.
ReportDue_at(now, next_udp_report) == now >= next_udp_report[1]

\* if now > self.next_udp_report
ReportDue(now, next_udp_report) == now > next_udp_report[1]

\* Mutant: a heartbeat that flushes the batcher only when a report is due.
heartbeat_lazy(w, now, sent) ==
    IF w.conn.udp_transport /\ ReportDue(now, w.conn.next_udp_report)
    THEN LET w1 == flush(w, sent)
         IN  send_udp_report(
                 [w1 EXCEPT !.conn.next_udp_report = <<now + UDP_REPORT_INTERVAL>>],
                 w1.udp.count)
    ELSE w

heartbeat(w, now, sent) ==
    IF w.conn.udp_transport
    THEN LET w1 == flush(w, sent)
         IN  IF w1.exc # "none" THEN w1
             ELSE IF w1.conn.next_udp_report = None THEN Raise(w1, "AttributeError")
             ELSE IF ReportDue(now, w1.conn.next_udp_report)
             THEN send_udp_report(
                      [w1 EXCEPT !.conn.next_udp_report = <<now + UDP_REPORT_INTERVAL>>],
                      w1.udp.count)
             ELSE w1
    ELSE w

\* self.send_mlat / self.send_sync as start() bound them
\* Mutant: a start() that binds send_mlat to the writer whatever the transport.
conn_send_mlat_text(w, message, sent) == writer_send_mlat(w, message)

conn_send_mlat(w, message, sent) ==
    IF w.conn.route = "udp" THEN send_mlat(w, message, sent)
    ELSE writer_send_mlat(w, message)

conn_send_sync(w, em, om, sent) ==
    IF w.conn.route = "udp" THEN send_sync(w, em, om, sent)
    ELSE writer_send_sync(w, em, om)

\* Mutant: handle_read() that splits what it received without the partial
\* line kept from the read before.
handle_read_forgetful(w, recv) ==
    IF recv.err = "EAGAIN" THEN w
    ELSE IF recv.err # "none" THEN Raise(w, "socket.error")
    ELSE IF recv.data = "" THEN reader_close(w)
    ELSE LET w1 == [w EXCEPT !.stats.server_rx_bytes = @ + Len(recv.data)]
             lines == Split(recv.data, "\n")
             w2 == ProcessLines(w1, lines)
         IN  IF w2.exc # "none" THEN w2
             ELSE [w2 EXCEPT !.reader.partial_line = lines[Len(lines)]]

\* recv: what self.recv(16384) did: [err |-> "none", data |-> bytes], or
\* err "EAGAIN", or another errno.
handle_read(w, recv) ==
    IF recv.err = "EAGAIN" THEN w
    ELSE IF recv.err # "none" THEN Raise(w, "socket.error")
    ELSE IF recv.data = "" THEN reader_close(w)
    ELSE LET w1 == [w EXCEPT !.stats.server_rx_bytes = @ + Len(recv.data)]
             lines == Split(w.reader.partial_line \o recv.data, "\n")
             w2 == ProcessLines(w1, lines)
         IN  IF w2.exc # "none" THEN w2
             ELSE [w2 EXCEPT !.reader.partial_line = lines[Len(lines)]]

(***************************************************************************)
(* The state machine.                                                      *)
(***************************************************************************)
World ==
    [udp |-> udp, wire |-> wire, stats |-> stats, conn |-> conn,
     reader |-> reader, writer |-> writer, accepted |-> accepted,
     calls |-> calls, clock |-> clock, queued |-> queued, peak |-> peak,
     logged |-> logged, exc |-> "none"]

IsData(item) == item.struct \in {"MLAT_SHORT", "MLAT_LONG", "SYNC", "ABS_SYNC"}
DataItems(buf) == SelectSeq(buf, IsData)

\* The step to the world w that operation o leaves.  entries: what the
\* operation gave the batcher (history); st: the new step counts.
\* The pending submessages are discarded when they leave the buffer without
\* a datagram having been handed to the socket.
Commit(w, o, entries, st) ==
    /\ udp' = w.udp
    /\ wire' = w.wire
    /\ stats' = w.stats
    /\ conn' = w.conn
    /\ reader' = w.reader
    /\ writer' = w.writer
    /\ accepted' = w.accepted
    /\ calls' = w.calls
    /\ clock' = w.clock
    /\ queued' = w.queued
    /\ peak' = w.peak
    /\ logged' = w.logged
    /\ exc' = w.exc
    /\ op' = o
    /\ steps' = st
    /\ stdin' = stdin
    /\ appended' = IF w.exc = "none" THEN appended \o entries ELSE appended
    /\ dropped' = IF Len(w.wire) = Len(wire) /\ w.udp.buf = <<>>
                  THEN dropped \cup
                       ((Len(appended) - Len(DataItems(udp.buf)) + 1)..Len(appended))
                  ELSE dropped

\* ---- the inputs ----
ShortPayload == <<93, 72, 64, 214, 32, 44, 195>>
LongPayload == <<141, 72, 64, 214, 32, 44, 195, 113, 195, 44, 224, 87, 96, 152>>
OddPayload == <<141, 72, 64, 214, 88, 195, 130, 214, 144, 200, 172, 40, 99, 167>>

MsgShort(t) == [address |-> 11259375, timestamp |-> t, payload |-> ShortPayload]
MsgLong(t) == [address |-> 4672, timestamp |-> t, payload |-> LongPayload]
MsgOdd(t) == [address |-> 4672, timestamp |-> t, payload |-> OddPayload]

TA == <<1000, 7>>
TB == Add(TA, Hex7FFFFFF0)
TC == Add(TB, Big(1))
TD == Add(TA, HexFFFFFFF0)
TE == Add(TD, Big(1))
TMax == <<Limb - 1, Limb - 1>>

UdpMlatInputs ==
    {MsgShort(TA), MsgLong(TB), MsgShort(TC)}
UdpSyncInputs ==
    {<<MsgLong(TB), MsgOdd(TA)>>, <<MsgLong(Sub(TMax, Big(1))), MsgOdd(TMax)>>,
     <<MsgLong(TA), MsgOdd(TD)>>, <<MsgLong(TA), MsgOdd(TE)>>}

MaxUdpAppends == 2
PrefillCount == 62
Keys == {4660}
EmptyStats == [server_udp_bytes |-> 0, server_tx_bytes |-> 0, server_rx_bytes |-> 0]

MlatEntry(m) == [kind |-> "mlat", messages |-> <<m>>]
SyncEntry(em, om) == [kind |-> "sync", messages |-> <<em, om>>]

\* ---- the batcher on its own ----
\* The initial states: a batcher as constructed; one that has sent 65535
\* datagrams; and one that holds as many long messages of one timestamp as n
\* calls of send_mlat leave in it (never more than fit under the threshold).
FillCount ==
    LET most == (FlushThreshold - STRUCT_HEADER_size) \div STRUCT_MLAT_LONG_size
    IN  IF PrefillCount < most THEN PrefillCount ELSE most

Prefilled(w, n) ==
    [w EXCEPT
        !.udp.base_timestamp = TA,
        !.udp.buf = <<[struct |-> "HEADER", key |-> w.udp.key, seq |-> w.udp.seq,
                       base_timestamp |-> TA]>>
                    \o [i \in 1..n |-> Packed(MlatItem(MsgLong(TA), Big(0)))],
        !.udp.used = STRUCT_HEADER_size + n * STRUCT_MLAT_LONG_size,
        !.peak = STRUCT_HEADER_size + n * STRUCT_MLAT_LONG_size]

Repeat(x, n) == [i \in 1..n |-> x]

\* The world around a batcher object u, before anything has happened.
NewWorld(u, udp_transport) ==
    [udp |-> u, wire |-> <<>>, stats |-> EmptyStats,
     conn |-> ConnectionObject(udp_transport), reader |-> None, writer |-> None,
     accepted |-> "", calls |-> <<>>, clock |-> 0, queued |-> "", peak |-> 0,
     logged |-> 0, exc |-> "none"]

\* No stream: the reads are whatever recv() gives.
NoStream == [lines |-> <<>>, text |-> ""]

\* The first state: the world w, the history of the appends that made it,
\* and the stream on stdin.
InitStdin(w, entries, stream) ==
    /\ udp = w.udp
    /\ wire = w.wire
    /\ stats = w.stats
    /\ conn = w.conn
    /\ reader = w.reader
    /\ writer = w.writer
    /\ accepted = w.accepted
    /\ calls = w.calls
    /\ clock = w.clock
    /\ queued = w.queued
    /\ peak = w.peak
    /\ logged = w.logged
    /\ exc = w.exc
    /\ appended = entries
    /\ dropped = {}
    /\ steps = [sends |-> 0, reads |-> 0, writes |-> 0, fed |-> 0]
    /\ stdin = stream
    /\ op = [name |-> "init", args |-> <<>>]

InitWorld(w, entries) == InitStdin(w, entries, NoStream)

InitUdp ==
    \E key \in Keys :
        \/ InitWorld(NewWorld(UdpObject(key, 0), TRUE), <<>>)
        \/ InitWorld(udp_start(NewWorld(UdpObject(key, SeqMask), TRUE)), <<>>)
        \/ InitWorld(Prefilled(udp_start(NewWorld(UdpObject(key, 0), TRUE)),
                               FillCount),
                     Repeat(MlatEntry(MsgLong(TA)), FillCount))

UdpStart ==
    /\ udp.sock = "none"
    /\ Commit(udp_start(World), [name |-> "udp.start", args |-> <<>>], <<>>, steps)

UdpSendMlat ==
    \E m \in UdpMlatInputs, sent \in BOOLEAN :
        /\ udp.sock # "none"
        /\ steps.sends < MaxUdpAppends
        /\ sent \/ Len(send_mlat(World, m, sent).wire) > Len(wire)
        /\ Commit(send_mlat(World, m, sent),
                  [name |-> "udp.send_mlat", args |-> <<m>>], <<MlatEntry(m)>>,
                  [steps EXCEPT !.sends = @ + 1])

UdpSendSync ==
    \E pair \in UdpSyncInputs, sent \in BOOLEAN :
        /\ udp.sock # "none"
        /\ steps.sends < MaxUdpAppends
        /\ sent \/ Len(send_sync(World, pair[1], pair[2], sent).wire) > Len(wire)
        /\ Commit(send_sync(World, pair[1], pair[2], sent),
                  [name |-> "udp.send_sync", args |-> pair],
                  <<SyncEntry(pair[1], pair[2])>>,
                  [steps EXCEPT !.sends = @ + 1])

UdpFlush ==
    \E sent \in BOOLEAN :
        /\ udp.sock # "none"
        /\ sent \/ udp.used > 0
        /\ Commit(flush(World, sent), [name |-> "udp.flush", args |-> <<>>], <<>>, steps)

UdpClose ==
    Commit(udp_close(World), [name |-> "udp.close", args |-> <<>>], <<>>, steps)

NextUdp == UdpStart \/ UdpSendMlat \/ UdpSendSync \/ UdpFlush \/ UdpClose

SpecUdp == InitUdp /\ [][NextUdp]_vars

\* ---- the connection ----
ConnMlatInputs == {MsgShort(TA), MsgLong(TC)}
ConnSyncInputs == {<<MsgLong(TA), MsgOdd(TE)>>}
AcLists == {<<11259375, 4672>>}
RateReports == {<<<<11259375, 150>>>>}
RecvInputs ==
    {[err |-> "EAGAIN", data |-> ""],
     [err |-> "EIO", data |-> ""],
     [err |-> "none", data |-> ""],
     [err |-> "none", data |-> "type\tmlat_status\tstatus\tok\treceiver_sync_count\t5\n"],
     [err |-> "none", data |-> "type\tmlat_wanted\thexids\tABCDEF 123456\ntype\tmlat_sta"],
     [err |-> "none", data |-> "tus\tstatus\tunstable\n"]}

MaxSends == 2
MaxLifeSends == 1
MaxReads == 1
MaxWrites == 2
MaxClock == 180
MaxLifeClock == 61
TickStep == 30
PartialWrite == 7

Init ==
    \E key \in Keys, udp_transport \in BOOLEAN :
        InitWorld(NewWorld(UdpObject(key, 0), udp_transport), <<>>)

\* start() is called once (before or after a disconnect()).
Start ==
    /\ reader = None
    /\ Commit(start(World, Coordinator), [name |-> "start", args |-> <<>>], <<>>, steps)

Disconnect ==
    Commit(disconnect(World), [name |-> "disconnect", args |-> <<>>], <<>>, steps)

\* asyncore calls a dispatcher only while it is open.
ReaderHandleRead ==
    \E recv \in RecvInputs :
        /\ reader # None
        /\ ~reader.closed
        /\ steps.reads < MaxReads
        /\ Commit(handle_read(World, recv),
                  [name |-> "reader.handle_read", args |-> <<recv>>], <<>>,
                  [steps EXCEPT !.reads = @ + (IF recv.data = "" THEN 0 ELSE 1)])

ReaderClose ==
    /\ reader # None
    /\ Commit(reader_close(World), [name |-> "reader.close", args |-> <<>>], <<>>, steps)

WriterClose ==
    /\ writer # None
    /\ Commit(writer_close(World), [name |-> "writer.close", args |-> <<>>], <<>>, steps)

\* asyncore calls handle_write only while writable() holds.
WriterHandleWrite ==
    /\ writer # None
    /\ ~writer.closed
    /\ writer.writebuf # ""
    /\ steps.writes < MaxWrites
    /\ \E sent \in {PartialWrite, Len(writer.writebuf)} :
        /\ sent <= Len(writer.writebuf)
        /\ Commit(handle_write(World, sent),
                  [name |-> "writer.handle_write", args |-> <<sent>>], <<>>,
                  [steps EXCEPT !.writes = @ + 1])

TickUpTo(most) ==
    /\ clock < most
    /\ Commit([World EXCEPT !.clock = @ + TickStep],
              [name |-> "tick", args |-> <<>>], <<>>, steps)

Heartbeat ==
    \E sent \in BOOLEAN :
        /\ conn.next_udp_report # None
        /\ sent \/ (conn.udp_transport /\ udp.used > 0)
        /\ Commit(heartbeat(World, clock, sent),
                  [name |-> "heartbeat", args |-> <<clock>>], <<>>, steps)

Tick == TickUpTo(MaxClock)
LifeTick == TickUpTo(MaxLifeClock)

ConnSendMlatUpTo(most) ==
    \E m \in ConnMlatInputs, sent \in BOOLEAN :
        /\ conn.route # "unbound"
        /\ steps.sends < most
        /\ sent \/ Len(conn_send_mlat(World, m, sent).wire) > Len(wire)
        /\ Commit(conn_send_mlat(World, m, sent),
                  [name |-> "send_mlat", args |-> <<m>>],
                  IF conn.route = "udp" THEN <<MlatEntry(m)>> ELSE <<>>,
                  [steps EXCEPT !.sends = @ + 1])

ConnSendMlat == ConnSendMlatUpTo(MaxSends)
LifeSendMlat == ConnSendMlatUpTo(MaxLifeSends)

ConnSendSync ==
    \E pair \in ConnSyncInputs, sent \in BOOLEAN :
        /\ conn.route # "unbound"
        /\ steps.sends < MaxSends
        /\ sent \/ Len(conn_send_sync(World, pair[1], pair[2], sent).wire) > Len(wire)
        /\ Commit(conn_send_sync(World, pair[1], pair[2], sent),
                  [name |-> "send_sync", args |-> pair],
                  IF conn.route = "udp" THEN <<SyncEntry(pair[1], pair[2])>> ELSE <<>>,
                  [steps EXCEPT !.sends = @ + 1])

\* the sends start() binds to the writer
WriterSend(w, kind, aclist, report) ==
    CASE kind = "send_seen" -> send_seen(w, aclist)
      [] kind = "send_lost" -> send_lost(w, aclist)
      [] kind = "send_rate_report" -> send_rate_report(w, report)
      [] kind = "send_clock_reset" -> send_clock_reset(w)
      [] kind = "send_input_connected" -> send_input_connected(w)
      [] kind = "send_input_disconnected" -> send_input_disconnected(w)

ConnSendOther ==
    \E kind \in {"send_seen", "send_lost", "send_rate_report", "send_clock_reset",
                 "send_input_connected", "send_input_disconnected"},
       aclist \in AcLists, report \in RateReports :
        /\ writer # None
        /\ steps.sends < MaxSends
        /\ Commit(WriterSend(World, kind, aclist, report),
                  [name |-> kind, args |-> <<>>], <<>>,
                  [steps EXCEPT !.sends = @ + 1])

\* The connection's life: start, the teardown triggers, the heartbeat and
\* the inbound records, with sends in between.
Next ==
    \/ Start \/ Disconnect \/ ReaderHandleRead \/ ReaderClose \/ WriterClose
    \/ LifeTick \/ Heartbeat \/ LifeSendMlat

Spec == Init /\ [][Next]_vars

\* The heartbeat over a longer time: the clock, the heartbeat, a send for the
\* batcher to hold, and the start and the end of the connection.
NextBeat == Start \/ Disconnect \/ Tick \/ Heartbeat \/ LifeSendMlat

SpecBeat == Init /\ [][NextBeat]_vars

\* The outbound transports: every send, the drain of the text buffer, the
\* flushes of the batcher, and the teardown.
NextIO ==
    \/ Start \/ Disconnect \/ WriterHandleWrite \/ Heartbeat
    \/ ConnSendMlat \/ ConnSendSync \/ ConnSendOther

SpecIO == Init /\ [][NextIO]_vars

\* ---- the reader on a stream ----
\* The lines the server may write (without their newline): records of every
\* handled type, well formed and not, and records the reader does not know.
ReaderTexts ==
    <<"type\tmlat_wanted\thexids\tAB 1f",
      "type\tmlat_unwanted\thexids\t",
      "type\tmlat_wanted\thexids\tXY",
      "type\tmlat_unwanted",
      "hexids\tAB",
      "type\tmlat_new\tx\t1",
      "type\tmlat_status\tstatus\tok\treceiver_sync_count\t5",
      "type\tmlat_status\tstatus\tunstable",
      "type\tmlat_status\tstatus\tno_sync\treceiver_sync_count\t0",
      "type\tmlat_status\tstatus\tlost\treceiver_sync_count\t12",
      "type\tmlat_status",
      "type\tmlat_status\tstatus\tok",
      "type\tmlat_result\thexid\tAB\tlat\t1.5\tlon\t-2\talt\t3\tnsvel\t4\tewvel\t5\tfpm\t6",
      "type\tmlat_result\thexid\tAB\tlat\tx\tlon\t-2\talt\t3\tnsvel\t4\tewvel\t5\tfpm\t6",
      "",
      "type\tmlat_status\tstatus\tok\treceiver_sync_count\tx">>

\* The streams: complete lines (by their index in ReaderTexts) and the bytes
\* after the last newline.
StreamPlans ==
    {[lines |-> <<1, 3, 2>>, tail |-> "type\tml"],
     [lines |-> <<7, 4, 8>>, tail |-> ""],
     [lines |-> <<5, 6, 10>>, tail |-> ""],
     [lines |-> <<15, 9, 1>>, tail |-> "x"],
     [lines |-> <<11, 16, 12>>, tail |-> ""],
     [lines |-> <<2, 14, 13>>, tail |-> ""]}

RECURSIVE StreamText(_, _)
StreamText(lines, tail) ==
    IF Len(lines) = 0 THEN tail
    ELSE ReaderTexts[Head(lines)] \o "\n" \o StreamText(Tail(lines), tail)

Streams ==
    {[lines |-> plan.lines, text |-> StreamText(plan.lines, plan.tail)] :
        plan \in StreamPlans}

\* The connection after start(), without a UDP transport.
Connected == start(NewWorld(UdpObject(4660, 0), FALSE), Coordinator)

InitReader == \E stream \in Streams : InitStdin(Connected, <<>>, stream)

MaxChunk == 8

\* A read gets the next bytes of the stream: up to MaxChunk of them, or all
\* that are left.
ReaderFeed ==
    /\ reader # None
    /\ ~reader.closed
    /\ \E n \in 1..(Len(stdin.text) - steps.fed) :
          /\ n <= MaxChunk \/ n = Len(stdin.text) - steps.fed
          /\ LET recv == [err |-> "none",
                          data |-> SubSeq(stdin.text, steps.fed + 1, steps.fed + n)]
             IN  Commit(handle_read(World, recv),
                        [name |-> "reader.handle_read", args |-> <<recv>>], <<>>,
                        [steps EXCEPT !.fed = @ + n])

\* A read that finds nothing to read yet.
ReaderAgain ==
    /\ reader # None
    /\ ~reader.closed
    /\ op.name # "reader.again"
    /\ Commit(handle_read(World, [err |-> "EAGAIN", data |-> ""]),
              [name |-> "reader.again", args |-> <<>>], <<>>, steps)

NextReader == ReaderFeed \/ ReaderAgain

SpecReader == InitReader /\ [][NextReader]_vars

\* ---- the writer with a buffer that is almost full ----
\* n copies of a text, one after the other.
RECURSIVE Times(_, _)
Times(text, n) ==
    IF n = 0 THEN ""
    ELSE IF n % 2 = 0 THEN LET half == Times(text, n \div 2) IN half \o half
    ELSE text \o Times(text, n - 1)

\* The connection after start() and as many send_clock_reset() calls as
\* leave the text buffer at or just under its limit, none of it accepted by
\* the stream yet.
ClockResetLine == "type\tmlat_event\tevent\tclock_reset\n"
AlmostFull ==
    WriterAppend(Connected,
                 Times(ClockResetLine,
                       (WriteBufLimit - Len(Connected.writer.writebuf))
                           \div Len(ClockResetLine)))

InitText == InitStdin(AlmostFull, <<>>, NoStream)

NextText == ConnSendOther \/ ConnSendMlat \/ WriterHandleWrite \/ WriterClose \/ Disconnect

SpecText == InitText /\ [][NextText]_vars

(***************************************************************************)
(* The claims.                                                             *)
(***************************************************************************)
Disconnected(log) ==
    Len(SelectSeq(log, LAMBDA c : c.name = "server_disconnected"))

\* A step is a teardown trigger: disconnect(), reader.close(), writer.close()
\* or a read at end of stream.
IsTrigger(o) ==
    \/ o.name \in {"disconnect", "reader.close", "writer.close"}
    \/ /\ o.name = "reader.handle_read"
       /\ o.args[1].err = "none"
       /\ o.args[1].data = ""

\* C1: after start(), the first teardown trigger makes the one and only call
\* of coordinator.server_disconnected; no step of a closed connection makes
\* another; and a disconnect() of a closed connection leaves the connection,
\* the reader, the writer and the batcher as they were.
C1_DisconnectOnce ==
    [][/\ (IsTrigger(op') /\ reader # None /\ ~conn.closed)
            => /\ Disconnected(calls) = 0
               /\ Disconnected(calls') = 1
               /\ conn'.closed /\ reader'.closed /\ writer'.closed
       /\ conn.closed => Disconnected(calls') = Disconnected(calls)
       /\ (op'.name = "disconnect" /\ conn.closed)
            => UNCHANGED <<conn, reader, writer, udp, calls>>]_vars

\* A disconnect() has run on a connection that was closed already (the
\* batcher holds a message sent after the close, which a first disconnect()
\* would have discarded), and the coordinator has been told once.
C1_Witness ==
    /\ op.name = "disconnect"
    /\ conn.closed
    /\ udp.used > 0
    /\ Disconnected(calls) = 1

\* C2: once disconnect() has run, the state stays "closed".
C2_ClosedIsTerminal == conn.closed => conn.state = "closed"

\* C3: between operations of the batcher, used is 0 exactly when
\* base_timestamp is None.
C3_UsedZeroIffNoBase == (udp.used = 0) <=> (udp.base_timestamp = None)

\* C4: the occupancy of the buffer never passes 1500 bytes, not even in the
\* middle of an append (peak is the largest value used has taken, and no
\* pack_into has been refused for lack of room), and it is at most 1400 once
\* an append has returned.
C4_Occupancy ==
    /\ peak <= 1500
    /\ udp.used <= peak
    /\ exc # "struct.error:buffer"
    /\ op.name \in {"udp.send_mlat", "udp.send_sync"} => udp.used <= 1400

\* An append to a buffer of exactly 1400 bytes wrote a REBASE and a SYNC, 49
\* bytes more, and flushed.
C4_Witness ==
    /\ op.name = "udp.send_sync"
    /\ peak = 1449
    /\ udp.used = 0
    /\ Len(wire) >= 1

\* C5: flush() of an empty buffer changes nothing of the batcher, the wire
\* and the statistics; flush() of a non-empty buffer hands the buffer to the
\* socket once and, sent or not, leaves used 0, base_timestamp None, the
\* sequence one further modulo 65536, the datagram count one higher and the
\* UDP byte count higher by the occupancy, and raises nothing.
C5_Flush ==
    [][op'.name = "udp.flush" =>
        IF udp.used = 0
        THEN UNCHANGED <<udp, wire, stats, exc>>
        ELSE /\ Len(wire') = Len(wire) + 1
             /\ SubSeq(wire', 1, Len(wire)) = wire
             /\ wire'[Len(wire')].data = udp.buf
             /\ udp'.used = 0
             /\ udp'.buf = <<>>
             /\ udp'.base_timestamp = None
             /\ udp'.seq = (udp.seq + 1) % 65536
             /\ udp'.seq \in 0..65535
             /\ udp'.count = udp.count + 1
             /\ stats'.server_udp_bytes = stats.server_udp_bytes + udp.used
             /\ exc' = "none"]_vars

\* A flush whose send failed has taken the sequence from 65535 to 0.
C5_Witness ==
    /\ op.name = "udp.flush"
    /\ Len(wire) >= 1
    /\ ~wire[Len(wire)].sent
    /\ udp.seq = 0
    /\ udp.count = 65536
    /\ udp.used = 0


\* ---- what a step of the batcher wrote ----
\* The datagram the operation of this step wrote into: the one it flushed, or
\* the pending one.
StepDatagram ==
    IF Len(wire') > Len(wire) THEN wire'[Len(wire')].data ELSE udp'.buf
StepFlushed == Len(wire') > Len(wire)
\* The structures the step added to it.
StepItems == SubSeq(StepDatagram, Len(udp.buf) + 1, Len(StepDatagram))
HasStruct(items, name) == \E i \in 1..Len(items) : items[i].struct = name

\* C6: send_mlat on a pending datagram of base t_base, message timestamp
\* t_msg.  When |t_msg - t_base| > 0x7FFFFFF0 the step writes a REBASE
\* carrying t_msg and right after it the data submessage with delta 0, and
\* the base is t_msg; otherwise it writes the data submessage alone, with
\* delta t_msg - t_base, and the base is unchanged.  (The base of the object
\* is compared when the append did not flush; a flush clears it.)
C6_MlatRebase ==
    [][(op'.name = "udp.send_mlat" /\ udp.used > 0) =>
        LET m == op'.args[1]
            delta == Sub(m.timestamp, udp.base_timestamp)
            new == StepItems
        IN  /\ exc' = "none"
            /\ IF Gt(Abs(delta), <<127, 16777200>>)
               THEN /\ Len(new) = 2
                    /\ new[1].struct = "REBASE"
                    /\ new[1].type = 5
                    /\ new[1].base_timestamp = m.timestamp
                    /\ new[2].struct \in {"MLAT_SHORT", "MLAT_LONG"}
                    /\ UnpackI(new[2].delta) = <<0, 0>>
                    /\ ~StepFlushed => udp'.base_timestamp = m.timestamp
               ELSE /\ Len(new) = 1
                    /\ new[1].struct \in {"MLAT_SHORT", "MLAT_LONG"}
                    /\ UnpackI(new[1].delta) = delta
                    /\ ~StepFlushed => udp'.base_timestamp = udp.base_timestamp]_vars

\* A send_mlat of a message 0x7FFFFFF1 after the base has written a REBASE
\* before its data submessage.
C6_Witness ==
    /\ op.name = "udp.send_mlat"
    /\ Len(udp.buf) >= 4
    /\ udp.buf[Len(udp.buf) - 1].struct = "REBASE"
    /\ udp.buf[Len(udp.buf) - 1].base_timestamp = op.args[1].timestamp
    /\ udp.base_timestamp = op.args[1].timestamp
    /\ Sub(op.args[1].timestamp, udp.buf[1].base_timestamp) = <<127, 16777201>>

\* C7: send_sync of a pair more than 0xFFFFFFF0 apart writes one ABS_SYNC
\* with both timestamps as given, no REBASE, and leaves the base of the
\* datagram as it was (the base the header gave it, when the step began the
\* datagram); a pair at most 0xFFFFFFF0 apart gets a SYNC and no ABS_SYNC.
C7_SyncForm ==
    [][op'.name = "udp.send_sync" =>
        LET em == op'.args[1]
            om == op'.args[2]
            new == StepItems
            last == new[Len(new)]
            began == udp.used = 0
        IN  /\ exc' = "none"
            /\ Len(new) >= 1
            /\ IF Gt(Abs(Sub(em.timestamp, om.timestamp)), <<255, 16777200>>)
               THEN /\ Len(new) = IF began THEN 2 ELSE 1
                    /\ began => new[1].struct = "HEADER"
                    /\ last.struct = "ABS_SYNC"
                    /\ last.type = 6
                    /\ last.etimestamp = em.timestamp
                    /\ last.otimestamp = om.timestamp
                    /\ ~HasStruct(new, "REBASE")
                    /\ ~StepFlushed =>
                         udp'.base_timestamp =
                            IF began THEN new[1].base_timestamp ELSE udp.base_timestamp
               ELSE /\ last.struct = "SYNC"
                    /\ last.type = 1
                    /\ ~HasStruct(new, "ABS_SYNC")
                    /\ Len(SelectSeq(new, IsData)) = 1]_vars

\* An ABS_SYNC has been appended to a pending datagram and the base is the
\* one of the datagram's header.
C7_Witness ==
    /\ op.name = "udp.send_sync"
    /\ Len(udp.buf) >= 3
    /\ udp.buf[Len(udp.buf)].struct = "ABS_SYNC"
    /\ udp.buf[Len(udp.buf)].etimestamp = op.args[1].timestamp
    /\ udp.buf[Len(udp.buf)].otimestamp = op.args[2].timestamp
    /\ udp.base_timestamp = udp.buf[1].base_timestamp


\* ---- a decoder of the datagrams ----
\* The messages a submessage stands for, under the base in force.
DecodeItem(item, base) ==
    CASE item.type \in {2, 3} ->
            [kind |-> "mlat",
             messages |-> <<[address |-> AddrOf(item.address),
                             timestamp |-> Add(base, UnpackI(item.delta)),
                             payload |-> item.payload]>>]
      [] item.type = 1 ->
            [kind |-> "sync",
             messages |-> <<[address |-> AddrOf(item.address),
                             timestamp |-> Add(base, UnpackI(item.edelta)),
                             payload |-> item.epayload],
                            [address |-> AddrOf(item.address),
                             timestamp |-> Add(base, UnpackI(item.odelta)),
                             payload |-> item.opayload]>>]
      [] item.type = 6 ->
            [kind |-> "sync",
             messages |-> <<[address |-> AddrOf(item.address),
                             timestamp |-> item.etimestamp,
                             payload |-> item.epayload],
                            [address |-> AddrOf(item.address),
                             timestamp |-> item.otimestamp,
                             payload |-> item.opayload]>>]

\* The submessages of datagram d from the i-th on: a REBASE (type 5)
\* replaces the base, every other submessage is decoded under it.
RECURSIVE DecodeFrom(_, _, _)
DecodeFrom(d, i, base) ==
    IF i > Len(d) THEN <<>>
    ELSE IF d[i].type = 5 THEN DecodeFrom(d, i + 1, d[i].base_timestamp)
    ELSE <<DecodeItem(d[i], base)>> \o DecodeFrom(d, i + 1, base)

\* A datagram: its header gives the first base.
Decode(d) == DecodeFrom(d, 2, d[1].base_timestamp)

RECURSIVE DecodeAll(_)
DecodeAll(ds) == IF Len(ds) = 0 THEN <<>> ELSE Decode(Head(ds)) \o DecodeAll(Tail(ds))

\* The datagrams handed to the socket, in order, and then the pending one.
Datagrams ==
    [i \in 1..Len(wire) |-> wire[i].data]
    \o (IF Len(udp.buf) > 0 THEN <<udp.buf>> ELSE <<>>)

\* The appended messages without those a close() discarded.
Kept ==
    LET idx == SelectSeq([i \in 1..Len(appended) |-> i], LAMBDA i : i \notin dropped)
    IN  [k \in 1..Len(idx) |-> appended[idx[k]]]

\* The datagram the last append wrote into, and the base at its end.
LastDatagram == IF Len(udp.buf) > 0 THEN udp.buf ELSE wire[Len(wire)].data
BaseAtEnd(d) ==
    LET js == {j \in 1..Len(d) : d[j].struct \in {"HEADER", "REBASE"}}
        j == CHOOSE j \in js : \A k \in js : k <= j
    IN  d[j].base_timestamp

\* C8: decoding the datagrams (header base, replaced at every REBASE, each
\* delta added to the base in force) gives back every appended message with
\* its timestamp, address and payload, in order; and send_mlat writes an
\* MLAT_SHORT for a 7-byte payload and an MLAT_LONG for a 14-byte one.
C8_RoundTrip ==
    /\ exc = "none"
    /\ DecodeAll(Datagrams) = Kept
    /\ op.name = "udp.send_mlat" =>
         LET last == LastDatagram[Len(LastDatagram)]
         IN  /\ Len(op.args[1].payload) = 7 =>
                    last.type = 2 /\ last.struct = "MLAT_SHORT" /\ Len(last.payload) = 7
             /\ Len(op.args[1].payload) = 14 =>
                    last.type = 3 /\ last.struct = "MLAT_LONG" /\ Len(last.payload) = 14

\* A datagram has gone out, and the pending one holds a REBASE and a SYNC
\* with a negative delta, a short and a long message among the appended.
C8_Witness ==
    /\ Len(wire) >= 1
    /\ HasStruct(udp.buf, "REBASE")
    /\ \E i \in 1..Len(udp.buf) :
          udp.buf[i].struct = "SYNC" /\ udp.buf[i].odelta[1] >= 128
    /\ \E i \in 1..Len(appended) :
          appended[i].kind = "mlat" /\ Len(appended[i].messages[1].payload) = 7
    /\ dropped = {}

InInt32(x) == Le(<<-128, 0>>, x) /\ Le(x, <<127, 16777215>>)

\* C9: no pack of a delta is refused, and the deltas an append has written
\* (the message timestamps less the base in force where the submessage
\* stands) lie in [-2^31, 2^31 - 1]: both deltas of a SYNC, the delta of an
\* MLAT_SHORT or MLAT_LONG.
C9_DeltasInRange ==
    /\ exc # "struct.error:i"
    /\ (op.name \in {"udp.send_mlat", "udp.send_sync"} /\ exc = "none") =>
         LET d == LastDatagram
             last == d[Len(d)]
             base == BaseAtEnd(d)
         IN  /\ last.struct \in {"MLAT_SHORT", "MLAT_LONG"} =>
                    /\ InInt32(Sub(op.args[1].timestamp, base))
                    /\ UnpackI(last.delta) = Sub(op.args[1].timestamp, base)
             /\ last.struct = "SYNC" =>
                    /\ InInt32(Sub(op.args[1].timestamp, base))
                    /\ InInt32(Sub(op.args[2].timestamp, base))
                    /\ UnpackI(last.edelta) = Sub(op.args[1].timestamp, base)
                    /\ UnpackI(last.odelta) = Sub(op.args[2].timestamp, base)

\* A pair exactly 0xFFFFFFF0 apart has been written as a SYNC after a rebase
\* to its mean, with deltas -0x7FFFFFF8 and 0x7FFFFFF8.
C9_Witness ==
    /\ op.name = "udp.send_sync"
    /\ Len(udp.buf) >= 3
    /\ udp.buf[Len(udp.buf)].struct = "SYNC"
    /\ udp.buf[Len(udp.buf) - 1].struct = "REBASE"
    /\ Sub(op.args[1].timestamp, udp.base_timestamp) = <<-128, 8>>
    /\ Sub(op.args[2].timestamp, udp.base_timestamp) = <<127, 16777208>>


\* ---- the order of what goes out ----
\* What a data submessage carries of the messages it was made from, and the
\* same of an appended entry: the kind, the address and the payloads.
Carried(item) ==
    IF item.struct \in {"MLAT_SHORT", "MLAT_LONG"}
    THEN <<"mlat", AddrOf(item.address), <<item.payload>>>>
    ELSE <<"sync", AddrOf(item.address), <<item.epayload, item.opayload>>>>
Given(entry) ==
    <<entry.kind, entry.messages[1].address,
      [i \in 1..Len(entry.messages) |-> entry.messages[i].payload]>>

RECURSIVE Flatten(_)
Flatten(ds) == IF Len(ds) = 0 THEN <<>> ELSE Head(ds) \o Flatten(Tail(ds))

\* The data submessages of the datagrams handed to the socket and then of
\* the pending buffer.
DataOut ==
    LET items == SelectSeq(Flatten(Datagrams), IsData)
    IN  [i \in 1..Len(items) |-> Carried(items[i])]

\* Between the data submessages a datagram holds its header and REBASE
\* submessages only.
OnlyRebaseBetween ==
    \A n \in 1..Len(Datagrams) :
        LET d == Datagrams[n]
        IN  /\ d[1].struct = "HEADER"
            /\ \A i \in 2..Len(d) : IsData(d[i]) \/ d[i].struct = "REBASE"

\* The text stream: what it accepted and then the unsent buffer is what was
\* queued, and the byte statistic counts what it accepted.
TextFifo ==
    /\ writer # None =>
         /\ accepted \o writer.writebuf = queued
         /\ stats.server_tx_bytes = Len(accepted)
    /\ writer = None => accepted = "" /\ queued = ""

\* C10 as stated: at every point the data submessages handed to the socket
\* followed by the pending ones are all the messages appended so far, in
\* call order, with only REBASE between; and the accepted bytes followed by
\* the unsent buffer are the queued lines in call order.
C10_FifoAll ==
    /\ DataOut = [i \in 1..Len(appended) |-> Given(appended[i])]
    /\ OnlyRebaseBetween
    /\ TextFifo

\* C10 amended: the same of the messages appended so far less the ones that
\* were pending when close() ran, which close() discards unsent.
C10_FifoKept ==
    /\ DataOut = [i \in 1..Len(Kept) |-> Given(Kept[i])]
    /\ OnlyRebaseBetween
    /\ TextFifo
    /\ \A i \in dropped : i \in 1..Len(appended)

\* A datagram has gone out, a later message was discarded by the close() of
\* a disconnect, and the text stream has accepted a part of what was queued.
C10_Witness ==
    /\ Len(wire) >= 1
    /\ dropped # {}
    /\ conn.closed
    /\ accepted # ""
    /\ writer # None
    /\ writer.writebuf # ""


\* ---- the reader ----
\* The bytes fed so far, and what the reader would be after them had they
\* come in one read.
FedSoFar == SubSeq(stdin.text, 1, steps.fed)
InOneRead == handle_read(Connected, [err |-> "none", data |-> FedSoFar])

\* The bytes after the last newline of a text.
AfterLastNewline(text) ==
    LET at == {i \in 1..Len(text) : SubSeq(text, i, i) = "\n"}
        last == IF at = {} THEN 0 ELSE CHOOSE i \in at : \A j \in at : j <= i
    IN  SubSeq(text, last + 1, Len(text))

\* C11: however the stream was cut into reads, the reader has made the
\* callbacks, logged the failures and set the state that one read of the
\* same bytes makes, and keeps as partial line the bytes after the last
\* newline.
C11_Fragmentation ==
    steps.fed > 0 =>
        /\ exc = "none"
        /\ calls = InOneRead.calls
        /\ logged = InOneRead.logged
        /\ conn.state = InOneRead.conn.state
        /\ stats.server_rx_bytes = Len(FedSoFar)
        /\ reader.partial_line = InOneRead.reader.partial_line
        /\ reader.partial_line = AfterLastNewline(FedSoFar)

\* A read of the single byte "\n" has completed a line kept from earlier
\* reads, the third good record of its stream, and the whole stream is in.
C11_Witness ==
    /\ op.name = "reader.handle_read"
    /\ op.args[1].data = "\n"
    /\ Len(calls) >= 3
    /\ reader.partial_line = ""
    /\ steps.fed = Len(stdin.text)


\* What each line of ReaderTexts is to make the coordinator do (the name and
\* the arguments of the callback), written out by hand; nothing for a line
\* that is malformed or of a type the reader does not know.
Float(neg, whole, frac) == [neg |-> neg, whole |-> whole, frac |-> frac]
ExpectedCalls(i) ==
    CASE i = 1 -> <<[name |-> "server_start_sending", args |-> <<{171, 31}>>]>>
      [] i = 2 -> <<[name |-> "server_stop_sending", args |-> <<{}>>]>>
      [] i = 13 ->
            <<[name |-> "server_mlat_result",
               args |-> [timestamp |-> <<>>, addr |-> 171,
                         lat |-> Float(FALSE, 1, "5"), lon |-> Float(TRUE, 2, "0"),
                         alt |-> Float(FALSE, 3, "0"), nsvel |-> Float(FALSE, 4, "0"),
                         ewvel |-> Float(FALSE, 5, "0"), vrate |-> Float(FALSE, 6, "0"),
                         callsign |-> <<>>, squawk |-> <<>>, error_est |-> <<>>,
                         nstations |-> <<>>]]>>
      [] OTHER -> <<>>
\* The lines that fail with a parse error: bad hex, missing field, missing
\* type key (also of an empty line), bad number.
FailingLines == {3, 4, 5, 14, 15, 16}

\* The number of complete lines among the bytes fed so far.
CompleteLines == Cardinality({i \in 1..steps.fed : SubSeq(stdin.text, i, i) = "\n"})

RECURSIVE ExpectedOf(_)
ExpectedOf(lines) ==
    IF Len(lines) = 0 THEN <<>>
    ELSE ExpectedCalls(Head(lines)) \o ExpectedOf(Tail(lines))

\* C12: the reader stays open and raises nothing; the callbacks made since
\* start() are those of the well-formed complete lines, in stream order, none
\* for a line that fails or is of an unknown type; and each failing line has
\* been logged.
C12_LineIsolation ==
    LET done == SubSeq(stdin.lines, 1, CompleteLines)
    IN  /\ ~reader.closed
        /\ ~conn.closed
        /\ exc = "none"
        /\ calls[1].name = "server_connected"
        /\ [i \in 1..(Len(calls) - 1) |->
               [name |-> calls[i + 1].name, args |-> calls[i + 1].args]]
           = ExpectedOf(done)
        /\ logged = Cardinality({k \in 1..Len(done) : done[k] \in FailingLines})

\* One read has brought a whole stream in which a failing line stands
\* between two good ones, and both good ones were dispatched.
C12_Witness ==
    /\ op.name = "reader.handle_read"
    /\ op.args[1].data = stdin.text
    /\ stdin.lines = <<1, 3, 2>>
    /\ logged = 1
    /\ Len(calls) = 3
    /\ calls[3].name = "server_stop_sending"


\* C13: a text buffer longer than 65536 bytes is never left standing: the
\* fatal condition has been raised and the connection is closed.
C13_OverflowFatal ==
    (writer # None /\ Len(writer.writebuf) > 65536) => (exc = "IOError" /\ conn.closed)


\* start() has run on a connection that was open (a connection that is
\* closed by now was closed after it, with the coordinator told).
StartedOpen == reader # None /\ (conn.closed => Disconnected(calls) = 1)

\* C14: on a started, open connection every teardown entry point (a read at
\* end of stream, reader.close(), writer.close(), disconnect()) returns with
\* the reader closed, the writer closed, the batcher's buffer empty and the
\* connection closed, raising nothing; and between operations the reader, the
\* writer and the connection are closed all three or none.
C14_Teardown ==
    [][/\ (IsTrigger(op') /\ reader # None /\ ~conn.closed) =>
            /\ exc' = "none"
            /\ reader'.closed
            /\ writer'.closed
            /\ conn'.closed
            /\ conn'.state = "closed"
            /\ udp'.used = 0
            /\ udp'.buf = <<>>
            /\ udp.sock = "open" => udp'.sock = "closed"
       /\ StartedOpen' =>
            /\ reader'.closed <=> conn'.closed
            /\ writer'.closed <=> conn'.closed
            /\ conn'.closed => conn'.state = "closed"]_vars

\* writer.close() has torn down a connection whose batcher held a message:
\* all is closed, the buffer is empty and the message was discarded.
C14_Witness ==
    /\ op.name = "writer.close"
    /\ conn.closed
    /\ reader.closed
    /\ writer.closed
    /\ Disconnected(calls) = 1
    /\ udp.used = 0
    /\ dropped # {}


\* The sends of the connection that start() binds to the writer in every case.
TextSends ==
    {"send_seen", "send_lost", "send_rate_report", "send_clock_reset",
     "send_input_connected", "send_input_disconnected"}

\* The step appended one or more bytes to the outbound text buffer.
TextGrew ==
    /\ Len(writer'.writebuf) > Len(writer.writebuf)
    /\ SubSeq(writer'.writebuf, 1, Len(writer.writebuf)) = writer.writebuf

\* C15: after start() with a UDP transport, send_mlat and send_sync change
\* the batcher (its buffer or the datagrams it sent) and leave the writer
\* alone; after start() without one they append to the text buffer and leave
\* the batcher alone; seen, lost, rate-report and event sends append to the
\* text buffer and leave the batcher alone in both cases.
C15_Routing ==
    [][/\ (op'.name \in {"send_mlat", "send_sync"} /\ conn.udp_transport) =>
            /\ exc' = "none"
            /\ writer' = writer
            /\ queued' = queued
            /\ udp'.buf # udp.buf \/ wire' # wire
       /\ (op'.name \in {"send_mlat", "send_sync"} /\ ~conn.udp_transport) =>
            /\ exc' = "none"
            /\ TextGrew
            /\ udp' = udp
            /\ wire' = wire
       /\ op'.name \in TextSends =>
            /\ exc' = "none"
            /\ TextGrew
            /\ udp' = udp
            /\ wire' = wire]_vars

\* With a UDP transport, a send_sync has gone to the batcher while the text
\* buffer holds the records of the text sends before it.
C15_Witness ==
    /\ op.name = "send_sync"
    /\ conn.udp_transport
    /\ udp.used > 0
    /\ steps.sends = 2
    /\ Len(accepted) = PartialWrite
    /\ Len(queued) > Len(Connected.queued)


\* C16: with a UDP transport, every heartbeat leaves the batcher's buffer
\* empty, and what the buffer held (however little) is the datagram that this
\* heartbeat handed to the socket.
C16_Staleness ==
    [][(op'.name = "heartbeat" /\ conn.udp_transport) =>
            /\ exc' = "none"
            /\ udp'.used = 0
            /\ udp'.buf = <<>>
            /\ IF udp.used > 0
               THEN /\ udp.used < FlushThreshold
                    /\ Len(wire') = Len(wire) + 1
                    /\ SubSeq(wire', 1, Len(wire)) = wire
                    /\ wire'[Len(wire')].data = udp.buf
               ELSE wire' = wire]_vars

\* A heartbeat at which no report was due has sent the one short message the
\* batcher held.
C16_Witness ==
    /\ op.name = "heartbeat"
    /\ conn.udp_transport
    /\ ~conn.closed
    /\ queued = Connected.queued
    /\ Len(appended) = 1
    /\ Len(wire) = 1
    /\ wire[1].sent
    /\ Len(wire[1].data) = 2
    /\ udp.used = 0

UdpReportHead == "type\tmlat_udp_report\tmessages_sent\t"

\* The counts of the mlat_udp_report records of a text, in order.
ReportCounts(text) ==
    LET lines == Split(text, "\n")
        isReport(l) == /\ Len(l) > Len(UdpReportHead)
                       /\ SubSeq(l, 1, Len(UdpReportHead)) = UdpReportHead
        reports == SelectSeq(lines, isReport)
    IN  [i \in 1..Len(reports) |->
            DecValue(SubSeq(reports[i], Len(UdpReportHead) + 1, Len(reports[i])), 0)]

\* C17: with a UDP transport, heartbeat(now) queues one mlat_udp_report
\* exactly when now > next_udp_report; the report carries the count of all
\* datagrams handed to the socket, the one of this heartbeat included, and
\* the next report time becomes now + 60; nothing but start() and a reporting
\* heartbeat moves the report time, so successive reports are more than 60
\* apart, and their counts never decrease.  Without a UDP transport a
\* heartbeat changes nothing.
C17_PeriodicReport ==
    [][/\ (op'.name = "heartbeat" /\ conn.udp_transport) =>
            LET now == op'.args[1]
            IN  IF now > conn.next_udp_report[1]
                THEN /\ queued' = queued \o UdpReportHead \o DecDigits(Len(wire')) \o "\n"
                     /\ udp'.count = Len(wire')
                     /\ conn'.next_udp_report = <<now + 60>>
                ELSE /\ queued' = queued
                     /\ conn'.next_udp_report = conn.next_udp_report
       /\ (op'.name = "heartbeat" /\ ~conn.udp_transport) =>
            /\ exc' = "none"
            /\ UNCHANGED <<udp, wire, stats, conn, reader, writer, accepted, calls,
                           queued, logged>>
       /\ op'.name \notin {"heartbeat", "start"} =>
            /\ conn'.next_udp_report = conn.next_udp_report
            /\ \/ Len(queued') < Len(queued) + Len(UdpReportHead)
               \/ SubSeq(queued', Len(queued) + 1, Len(queued) + Len(UdpReportHead))
                      # UdpReportHead
       /\ udp'.count >= udp.count
       /\ LET counts == ReportCounts(queued')
          IN  \A i \in 1..(Len(counts) - 1) : counts[i] <= counts[i + 1]]_vars

\* Two reports have been queued, the second by this heartbeat: it counts the
\* datagram sent since the first.
C17_Witness ==
    /\ op.name = "heartbeat"
    /\ conn.udp_transport
    /\ ReportCounts(queued) = <<0, 1>>
    /\ conn.next_udp_report = <<clock + 60>>
    /\ udp.count = 1


ReadyHead == "type\tmlat_event\tevent\tready\tmlat_client_version\t"

\* The text is the ready record and nothing else: one line that begins with
\* the ready event and ends with the only newline.
IsReadyRecord(text) ==
    /\ Len(text) > Len(ReadyHead) + 1
    /\ SubSeq(text, 1, Len(ReadyHead)) = ReadyHead
    /\ {i \in 1..Len(text) : Char(text, i) = "\n"} = {Len(text)}

Connects(log) == SelectSeq(log, LAMBDA c : c.name = "server_connected")

\* C18: start() queues the ready record as the first record of the text
\* buffer, sets the state to "connected" and then calls server_connected,
\* once: the call is made with the state "connected" and the ready record
\* queued, nothing is queued before start(), what is queued later comes after
\* the ready record, and no other step calls server_connected.
C18_StartOrder ==
    [][/\ op'.name = "start" =>
            /\ exc' = "none"
            /\ queued = ""
            /\ IsReadyRecord(queued')
            /\ writer'.writebuf = queued'
            /\ conn'.state = "connected"
            /\ calls' = Append(calls, calls'[Len(calls')])
            /\ calls'[Len(calls')].name = "server_connected"
            /\ calls'[Len(calls')].at = [state |-> "connected", queued |-> queued']
       /\ op'.name # "start" => Connects(calls') = Connects(calls)
       /\ queued # "" =>
            /\ Len(Connects(calls)) = 1
            /\ SubSeq(queued', 1, Len(queued)) = queued]_vars

\* start() has returned on an open connection: the coordinator has been told
\* once and the text buffer holds the ready record alone.
C18_Witness ==
    /\ op.name = "start"
    /\ ~conn.closed
    /\ conn.state = "connected"
    /\ Len(calls) = 1
    /\ calls[1].name = "server_connected"
    /\ IsReadyRecord(writer.writebuf)


\* The state string each status record of ReaderTexts is to leave, written
\* out by hand; the lines that are not here are to leave it as it was (a
\* record of another type, a malformed line, a status record whose count is
\* not a number).
ExpectedState ==
    (7 :> "synchronized with 5 nearby receivers")
    @@ (8 :> "clock unstable")
    @@ (9 :> "not synchronized with any nearby receivers")
    @@ (10 :> "lost 12")
    @@ (11 :> "unknown 0")
    @@ (12 :> "synchronized with 0 nearby receivers")

RECURSIVE StateAfter(_, _)
StateAfter(state, lines) ==
    IF Len(lines) = 0 THEN state
    ELSE StateAfter(IF Head(lines) \in DOMAIN ExpectedState
                    THEN ExpectedState[Head(lines)] ELSE state,
                    Tail(lines))

\* C19: the state string of the connection is the one of the last complete
\* mlat_status record read: "synchronized with N nearby receivers" for ok,
\* "clock unstable" for unstable, "not synchronized with any nearby
\* receivers" for no_sync, "<status> <count>" for another status ("unknown"
\* when there is none), with the count 0 when absent; the records of other
\* types and the lines that fail leave it as it was.
C19_StatusString ==
    conn.state = StateAfter("connected", SubSeq(stdin.lines, 1, CompleteLines))

\* The stream of a status record without status or count, one with a count
\* that is not a number and one with status ok and no count has been read.
C19_Witness ==
    /\ op.name = "reader.handle_read"
    /\ stdin.lines = <<11, 16, 12>>
    /\ steps.fed = Len(stdin.text)
    /\ logged = 1
    /\ conn.state = "synchronized with 0 nearby receivers"


\* The content of a datagram: one header, in front, with the batcher's key
\* and the sequence seq, and one data submessage or more behind it.
HeaderOnce(data, seq) ==
    /\ Len(data) >= 2
    /\ data[1].struct = "HEADER"
    /\ data[1].key = udp.key
    /\ data[1].seq = seq
    /\ \A i \in 2..Len(data) : data[i].struct # "HEADER"
    /\ \E i \in 2..Len(data) : IsData(data[i])

\* C20: the sequence is the datagram counter mod 65536; the datagram number
\* k (from 0, failed sends counted) carries sequence k mod 65536 in the one
\* header it has, in front of at least one data submessage; and the buffer,
\* when it holds anything, begins with the one header of the datagram to
\* come, written with the sequence in force.
C20_GapFree ==
    /\ udp.seq = udp.count % (SeqMask + 1)
    /\ udp.count >= Len(wire)
    /\ \A i \in 1..Len(wire) :
            HeaderOnce(wire[i].data, (udp.count - Len(wire) + i - 1) % (SeqMask + 1))
    /\ udp.used > 0 => HeaderOnce(udp.buf, udp.seq)
    /\ udp.used = 0 => udp.buf = <<>>

\* Two datagrams across the wrap of the sequence, the first one a send that
\* failed: 65535, then 0.
C20_Witness ==
    /\ Len(wire) = 2
    /\ ~wire[1].sent
    /\ wire[1].data[1].seq = SeqMask
    /\ wire[2].data[1].seq = 0
    /\ udp.count = SeqMask + 2
    /\ udp.seq = 1

====
